---- MODULE Spec2Model ----
(***************************************************************************)
(* A model of the Scope builder and renderer of codegen-rs                 *)
(* (src/src/scope.rs), with the License, Comment and Const leaf renderers  *)
(* (src/src/license.rs, src/src/comment.rs, src/src/consts.rs).            *)
(*                                                                         *)
(* Text is a sequence of tokens.  The token "\n" is a line break; every    *)
(* other token is a non-empty string holding no line break.  A write!      *)
(* or writeln! invocation is one write: a text handed to the Formatter.    *)
(***************************************************************************)
EXTENDS Integers, Sequences, FiniteSets

VARIABLES docs, license, imports, items, lic, call, ret, panicked, imported

vars == <<docs, license, imports, items, lic, call, ret, panicked, imported>>

\* The field names of the records of the model, in the order in which
\* every record below lists its fields.
RecordFields ==
    [op : {}, kind : {}, path : {}, key : {}, val : {}, name : {}, title : {},
     copyrights : {}, ty : {}, vis : {}, documentation : {}, value : {},
     comment : {}, idx : {}, repeated : {}, ok : {}, dst : {}, failed : {},
     n : {}, failAt : {}, sticky : {}, firstFail : {}, later : {}, out : {}]

(***************************************************************************)
(* Bounds of the model.                                                    *)
(***************************************************************************)
MaxItems == 2

MaxImports == 3

MaxCopyrights == 2

MaxFailAt == 3

(***************************************************************************)
(* Text helpers.                                                           *)
(***************************************************************************)
NL == "\n"

\* A string as a text: the empty string holds no token.
Tok(s) == IF s = "" THEN <<>> ELSE <<s>>

\* Option<String>: <<>> is None, <<s>> is Some(s).
None == <<>>

Some(s) == <<s>>

RECURSIVE Concat(_)
\* The tokens of a text joined into one string.
Concat(t) == IF t = <<>> THEN "" ELSE Head(t) \o Concat(Tail(t))

RECURSIVE Flatten(_)
\* A sequence of texts as one text.
Flatten(ts) == IF ts = <<>> THEN <<>> ELSE Head(ts) \o Flatten(Tail(ts))

RECURSIVE SplitNL(_, _)
\* The pieces of text t between line breaks (cur is the piece being read);
\* a text ending in a line break has a last piece that is empty.
SplitNL(t, cur) ==
    IF t = <<>> THEN <<cur>>
    ELSE IF Head(t) = NL THEN <<cur>> \o SplitNL(Tail(t), <<>>)
    ELSE SplitNL(Tail(t), Append(cur, Head(t)))

\* str::lines(): the pieces between line breaks, the last one dropped when
\* it is empty.  Each line is a text without line breaks.
TokLines(t) ==
    LET ps == SplitNL(t, <<>>)
    IN  IF ps[Len(ps)] = <<>> THEN SubSeq(ps, 1, Len(ps) - 1) ELSE ps

\* The lines of a text as strings.
Lines(t) == [i \in 1..Len(TokLines(t)) |-> Concat(TokLines(t)[i])]

(***************************************************************************)
(* IndexMap: a sequence of [key, val] entries in insertion order.          *)
(***************************************************************************)
RECURSIVE IndexOfFrom(_, _, _)
IndexOfFrom(m, k, i) ==
    IF i > Len(m) THEN 0
    ELSE IF m[i].key = k THEN i
    ELSE IndexOfFrom(m, k, i + 1)

\* The position of key k in m, 0 when m has no such key.
IndexOf(m, k) == IndexOfFrom(m, k, 1)

ContainsKey(m, k) == IndexOf(m, k) # 0

\* A faulty variant of OrInsert: a key that is present gets the new value.
OrInsertAlways(m, k, v) ==
    IF ContainsKey(m, k)
    THEN [m EXCEPT ![IndexOf(m, k)] = [key |-> k, val |-> v]]
    ELSE Append(m, [key |-> k, val |-> v])

\* entry(k).or_insert_with(|| v): m with <<k, v>> appended when k is missing.
OrInsert(m, k, v) ==
    IF ContainsKey(m, k) THEN m ELSE Append(m, [key |-> k, val |-> v])

\* The value m holds for key k (k is present).
Get(m, k) == m[IndexOf(m, k)].val

\* m with the value of key k (present) replaced by v.
Put(m, k, v) == [m EXCEPT ![IndexOf(m, k)].val = v]

(***************************************************************************)
(* Imports.                                                                *)
(***************************************************************************)
\* Import::new(path, ty): no visibility qualifier yet.
Import_new(path, ty) == [path |-> path, ty |-> ty, vis |-> None]

\* A faulty variant of FirstSegment: the last segment is taken.
FirstSegmentWhole(ty) == ty[Len(ty)]

\* ty.split("::").next().unwrap_or(ty): a type argument is the sequence of
\* its segments between "::" separators, never empty.
FirstSegment(ty) == Head(ty)

\* The type argument as the caller wrote it.
RECURSIVE TyString(_)
TyString(ty) ==
    IF Len(ty) = 1 THEN ty[1] ELSE ty[1] \o "::" \o TyString(Tail(ty))

\* Scope::import: the table after import(path, ty).
ImportInsert(imps, path, ty) ==
    LET key   == FirstSegment(ty)
        outer == OrInsert(imps, path, <<>>)
        inner == OrInsert(Get(outer, path), key, Import_new(path, key))
    IN  Put(outer, path, inner)

\* The number of Import records of the table.
RECURSIVE NumImports(_)
NumImports(imps) ==
    IF imps = <<>> THEN 0 ELSE Len(Head(imps).val) + NumImports(Tail(imps))

(***************************************************************************)
(* The Formatter: a text sink.  A Scope renders at indentation depth 0,    *)
(* where the prefix of a line is empty.  The sink below may fail: its      *)
(* failAt-th write fails (and, when sticky, every later one); failAt = 0   *)
(* is a sink that never fails, such as the String that to_string uses.     *)
(***************************************************************************)
Formatter_new(failAt, sticky) ==
    [ok |-> TRUE, dst |-> <<>>, n |-> 0, failAt |-> failAt, sticky |-> sticky,
     firstFail |-> 0, later |-> FALSE]

\* Whether the k-th write to the sink of f fails.
SinkFails(f, k) ==
    /\ f.failAt # 0
    /\ \/ k = f.failAt
       \/ f.sticky /\ k > f.failAt

\* One write!/writeln!: the text reaches dst unless the sink fails.
Write(f, text) ==
    LET k == f.n + 1
    IN  IF SinkFails(f, k)
        THEN [f EXCEPT !.n = k, !.ok = FALSE,
                       !.firstFail = IF f.firstFail = 0 THEN k ELSE f.firstFail,
                       !.later = (f.firstFail # 0)]
        ELSE [f EXCEPT !.n = k, !.ok = TRUE, !.dst = f.dst \o text,
                       !.later = (f.firstFail # 0)]

RECURSIVE TryWrites(_, _)
\* A run of writes each followed by `?`: the first failure ends the run
\* and is the run's result (f.ok = FALSE).
TryWrites(f, ws) ==
    IF ws = <<>> THEN [f EXCEPT !.ok = TRUE]
    ELSE LET g == Write(f, Head(ws))
         IN  IF g.ok THEN TryWrites(g, Tail(ws)) ELSE g

(***************************************************************************)
(* License (src/src/license.rs).                                           *)
(***************************************************************************)
MIT_LICENSE_TEXT ==
    <<"MIT License",
       NL,
       NL,
       "{}",
       NL,
       NL,
       "Permission is hereby granted, free of charge, to any person obtaining a copy",
       NL,
       "of this software and associated documentation files (the \"Software\"), to deal",
       NL,
       "in the Software without restriction, including without limitation the rights",
       NL,
       "to use, copy, modify, merge, publish, distribute, sublicense, and/or sell",
       NL,
       "copies of the Software, and to permit persons to whom the Software is",
       NL,
       "furnished to do so, subject to the following conditions:",
       NL,
       NL,
       "The above copyright notice and this permission notice shall be included in all",
       NL,
       "copies or substantial portions of the Software.",
       NL,
       NL,
       "THE SOFTWARE IS PROVIDED \"AS IS\", WITHOUT WARRANTY OF ANY KIND, EXPRESS OR",
       NL,
       "IMPLIED, INCLUDING BUT NOT LIMITED TO THE WARRANTIES OF MERCHANTABILITY,",
       NL,
       "FITNESS FOR A PARTICULAR PURPOSE AND NONINFRINGEMENT. IN NO EVENT SHALL THE",
       NL,
       "AUTHORS OR COPYRIGHT HOLDERS BE LIABLE FOR ANY CLAIM, DAMAGES OR OTHER",
       NL,
       "LIABILITY, WHETHER IN AN ACTION OF CONTRACT, TORT OR OTHERWISE, ARISING FROM,",
       NL,
       "OUT OF OR IN CONNECTION WITH THE SOFTWARE OR THE USE OR OTHER DEALINGS IN THE",
       NL,
       "SOFTWARE.">>

BSD_LICENSE_TEXT == <<>>

License_new(title, ty) == [title |-> title, copyrights |-> <<>>, ty |-> ty]

add_copyright(l, c) == [l EXCEPT !.copyrights = Append(l.copyrights, c)]

\* A faulty variant of CopyrightWrites: the first entry alone is written.
CopyrightWritesOne(cs) ==
    IF cs = <<>> THEN <<>> ELSE << <<"// Copyright (c) ">> \o Tok(cs[1]) \o <<NL>> >>

\* The writes of the placeholder line: one per copyright entry.
CopyrightWrites(cs) ==
    [i \in 1..Len(cs) |-> <<"// Copyright (c) ">> \o Tok(cs[i]) \o <<NL>>]

\* The write of a template line that is not the placeholder.
LineWrite(line) == <<"// ">> \o line \o <<NL>>

RECURSIVE BodyWrites(_, _)
\* The loop over lictext.lines().
BodyWrites(lines, cs) ==
    IF lines = <<>> THEN <<>>
    ELSE (IF Concat(Head(lines)) = "{}"
          THEN CopyrightWrites(cs)
          ELSE <<LineWrite(Head(lines))>>) \o BodyWrites(Tail(lines), cs)

\* License::fmt: the writes it issues, in order.
License_fmt(l) ==
    LET lictext == IF l.ty = "Mit" THEN MIT_LICENSE_TEXT ELSE BSD_LICENSE_TEXT
        spdx    == IF l.ty = "Mit" THEN "MIT" ELSE "BSD"
    IN  (IF l.title # ""
         THEN << <<"// ", l.title, NL>>, <<"//", NL>> >>
         ELSE <<>>)
        \o BodyWrites(TokLines(lictext), l.copyrights)
        \o << <<"//", NL>>,
              <<"// SPDX-License-Identifier: ", spdx, NL>>,
              <<"//", NL, NL>> >>

(***************************************************************************)
(* The import block (Scope::fmt_imports).                                  *)
(***************************************************************************)
\* The Import records of the table in stored order: path by path, and
\* within a path type by type.
RECURSIVE FlatImports(_)
FlatImports(imps) ==
    IF imps = <<>> THEN <<>>
    ELSE [i \in 1..Len(Head(imps).val) |-> Head(imps).val[i].val]
         \o FlatImports(Tail(imps))

\* Whether sequence s holds x.
Contains(s, x) == \E i \in 1..Len(s) : s[i] = x

\* A faulty variant of PushVis: no test for a qualifier already collected.
PushVisNoTest(acc, vis) == Append(acc, vis)

\* if !visibilities.contains(&import.vis) { visibilities.push(...) }
PushVis(acc, vis) == IF Contains(acc, vis) THEN acc ELSE Append(acc, vis)

RECURSIVE CollectVis(_, _)
CollectVis(recs, acc) ==
    IF recs = <<>> THEN acc
    ELSE CollectVis(Tail(recs), PushVis(acc, Head(recs).vis))

\* The first loop: the visibilities in the order first met.
Visibilities(imps) == CollectVis(FlatImports(imps), <<>>)

\* The type names of one path whose import has visibility vis.
TysFor(vis, inner) ==
    LET sel == SelectSeq(inner, LAMBDA e : e.val.vis = vis)
    IN  [i \in 1..Len(sel) |-> sel[i].key]

\* The writes of the brace list of two or more types.
BraceWrites(tys) ==
    << <<"{">> >>
    \o Flatten([i \in 1..Len(tys) |->
                   (IF i # 1 THEN << <<", ">> >> ELSE <<>>) \o <<Tok(tys[i])>>])
    \o << <<"};", NL>> >>

\* The writes of one use statement; nothing when tys is empty.
StatementWrites(vis, path, tys) ==
    IF tys = <<>> THEN <<>>
    ELSE (IF vis # None THEN << Tok(vis[1]) \o <<" ">> >> ELSE <<>>)
         \o << <<"use ">> \o Tok(path) \o <<"::">> >>
         \o (IF Len(tys) = 1
             THEN << Tok(tys[1]) \o <<";", NL>> >>
             ELSE BraceWrites(tys))

\* A faulty variant of fmt_imports: the paths are walked last to first.
fmt_imports_reversed(imps) ==
    LET vs == Visibilities(imps)
        n  == Len(imps)
    IN  Flatten([v \in 1..Len(vs) |->
            Flatten([p \in 1..n |->
                StatementWrites(vs[v], imps[n + 1 - p].key,
                                TysFor(vs[v], imps[n + 1 - p].val))])])

\* Scope::fmt_imports: the writes it issues, in order.
fmt_imports(imps) ==
    LET vs == Visibilities(imps)
    IN  Flatten([v \in 1..Len(vs) |->
            Flatten([p \in 1..Len(imps) |->
                StatementWrites(vs[v], imps[p].key,
                                TysFor(vs[v], imps[p].val))])])

(***************************************************************************)
(* Declarations (the Item variants).                                       *)
(***************************************************************************)
Comment_new(comment) == [kind |-> "Comment", comment |-> comment]

\* Comment::fmt
Comment_fmt(c) ==
    LET ls == TokLines(c.comment)
    IN  [i \in 1..Len(ls) |-> <<"// ">> \o ls[i] \o <<NL>>]

Const_new(name, ty, value) ==
    [kind |-> "Const", name |-> name, ty |-> ty, vis |-> None,
     documentation |-> <<>>, value |-> value]

\* Const::doc
Const_doc(c, documentation) == [c EXCEPT !.documentation = documentation]

\* Const::vis
Const_vis(c, vis) == [c EXCEPT !.vis = Some(vis)]

\* Type::fmt: the type's name.
Type_fmt(ty) == << Tok(ty) >>

\* Const::fmt
Const_fmt(c) ==
    [i \in 1..Len(c.documentation) |->
        <<"/// ">> \o Tok(c.documentation[i]) \o <<NL>>]
    \o (IF c.vis # None
        THEN << Tok(c.vis[1]) \o <<" const ">> \o Tok(c.name) \o <<" : ">> >>
        ELSE << <<"const ">> \o Tok(c.name) \o <<" : ">> >>)
    \o Type_fmt(c.ty)
    \o << <<" = ">> \o Tok(c.value) \o <<";", NL>> >>

\* Module::new, Struct::new, Function::new, Trait::new, Enum::new, Impl::new:
\* a declaration of the kind, holding its name and nothing else yet.
Decl_new(kind, name) == [kind |-> kind, name |-> name]

Keyword(kind) ==
    CASE kind = "Module"   -> "mod "
      [] kind = "Struct"   -> "struct "
      [] kind = "Function" -> "fn "
      [] kind = "Trait"    -> "trait "
      [] kind = "Enum"     -> "enum "
      [] kind = "Impl"     -> "impl "

\* The render of a declaration that holds nothing: its header and an empty
\* body, ended by a line break.
Decl_fmt(d) ==
    << <<Keyword(d.kind)>> \o Tok(d.name) >>
    \o (IF d.kind = "Struct" THEN << <<";", NL>> >>
        ELSE IF d.kind = "Function" THEN << <<"()">>, <<" {", NL>>, <<"}", NL>> >>
        ELSE << <<" {", NL>>, <<"}", NL>> >>)

\* Docs::fmt: each line as a doc comment.
Docs_fmt(d) ==
    LET ls == TokLines(d)
    IN  [i \in 1..Len(ls) |-> <<"/// ">> \o ls[i] \o <<NL>>]

\* The match of Scope::fmt: the writes of one item.
Item_fmt(item) ==
    CASE item.kind = "Comment" -> Comment_fmt(item)
      [] item.kind = "Const"   -> Const_fmt(item)
      [] item.kind = "Raw"     -> << item.val \o <<NL>> >>
      [] OTHER                 -> Decl_fmt(item)

(***************************************************************************)
(* Scope::fmt and Display for Scope.                                       *)
(***************************************************************************)
\* A faulty variant of SeparatorWrites: a separator before every item.
SeparatorWritesAlways(i) == << <<NL>> >>

\* if i != 0 { writeln!(fmt)?; }   (i counts from 1 here)
SeparatorWrites(i) == IF i # 1 THEN << <<NL>> >> ELSE <<>>

\* The writes of the loop over the items.
ItemsWrites(its) ==
    Flatten([i \in 1..Len(its) |-> SeparatorWrites(i) \o Item_fmt(its[i])])

\* Scope::fmt on Formatter f: the Formatter afterwards; its ok field is the
\* Result.  The Results of License::fmt and Docs::fmt are dropped
\* (`.map(|l| l.fmt(fmt));`), those of the later steps are tried (`?`).
Render(lc, dc, imps, its, f) ==
    LET f1 == IF lc # None THEN TryWrites(f, License_fmt(lc[1])) ELSE f
        f2 == IF dc # None THEN TryWrites(f1, Docs_fmt(dc[1])) ELSE f1
        f3 == TryWrites(f2, fmt_imports(imps))
        f4 == IF imps # <<>> THEN TryWrites(f3, << <<NL>> >>) ELSE f3
    IN  IF ~f3.ok THEN f3
        ELSE IF ~f4.ok THEN f4
        ELSE TryWrites(f4, ItemsWrites(its))

\* if ret.as_bytes().last() == Some(&b'\n') { ret.pop(); }
TrimNewline(t) ==
    IF t # <<>> /\ t[Len(t)] = NL THEN SubSeq(t, 1, Len(t) - 1) ELSE t

\* Display for Scope: the string it produces (the String sink never fails).
Display_fmt(lc, dc, imps, its) ==
    TrimNewline(Render(lc, dc, imps, its, Formatter_new(0, FALSE)).dst)

(***************************************************************************)
(* The state machine.  The state is a Scope (docs, license, imports,       *)
(* items), a License the caller is building (lic), the last call (call),   *)
(* what it returned (ret) and whether the program has panicked.  The       *)
(* history variable imported holds the <<path, ty>> arguments import has   *)
(* been called with.                                                       *)
(***************************************************************************)
Self == [kind |-> "self"]

\* A reference to items[i].
ItemRef(i) == [kind |-> "item", idx |-> i]

\* A reference to the Import record stored under (path, key).
ImportRef(path, key) == [kind |-> "import", path |-> path, key |-> key]

\* Scope::new
Init ==
    /\ docs = None
    /\ license = None
    /\ imports = <<>>
    /\ items = <<>>
    /\ lic = None
    /\ call = [op |-> "new"]
    /\ ret = Self
    /\ panicked = FALSE
    /\ imported = {}

\* Scope::docs
Docs(d) ==
    /\ ~panicked
    /\ docs' = Some(d)
    /\ call' = [op |-> "docs"]
    /\ ret' = Self
    /\ UNCHANGED <<imported, license, imports, items, lic, panicked>>

\* Scope::license
License(l) ==
    /\ ~panicked
    /\ license' = Some(l)
    /\ call' = [op |-> "license"]
    /\ ret' = Self
    /\ UNCHANGED <<imported, docs, imports, items, lic, panicked>>

\* Scope::import; max bounds the number of Import records.  The call is
\* recorded with whether it repeats an earlier call's arguments.
Import(path, ty, max) ==
    /\ ~panicked
    /\ NumImports(ImportInsert(imports, path, ty)) <= max
    /\ imports' = ImportInsert(imports, path, ty)
    /\ call' = [op |-> "import", path |-> path, ty |-> ty,
                repeated |-> (<<path, ty>> \in imported)]
    /\ ret' = ImportRef(path, FirstSegment(ty))
    /\ imported' = imported \cup {<<path, ty>>}
    /\ UNCHANGED <<docs, license, items, lic, panicked>>

\* Import::vis on the record the last import call returned.
ImportVis(vis) ==
    /\ ~panicked
    /\ ret.kind = "import"
    /\ LET inner == Get(imports, ret.path)
           rec   == Get(inner, ret.key)
       IN  imports' = Put(imports, ret.path,
                          Put(inner, ret.key, [rec EXCEPT !.vis = Some(vis)]))
    /\ call' = [op |-> "Import::vis"]
    /\ UNCHANGED <<imported, docs, license, items, lic, ret, panicked>>

\* get_module / get_module_mut: the position of the first Module item named
\* name, 0 when there is none (None).
get_module(its, name) ==
    LET S == {i \in 1..Len(its) : its[i].kind = "Module" /\ its[i].name = name}
    IN  IF S = {} THEN 0 ELSE CHOOSE i \in S : \A j \in S : i <= j

\* A faulty variant of ModuleNameFree: the assertion is gone.
ModuleNameFreeAlways(its, name) == TRUE

\* assert!(self.get_module(&item.name).is_none())
ModuleNameFree(its, name) == get_module(its, name) = 0

\* push_X / raw (call c): the item is appended and the Scope returned.
Push(c, item) ==
    /\ ~panicked
    /\ Len(items) < MaxItems
    /\ items' = Append(items, item)
    /\ call' = c
    /\ ret' = Self
    /\ UNCHANGED <<imported, docs, license, imports, lic, panicked>>

\* new_X (call c): push_X, then a reference to the last item.
New(c, item) ==
    /\ ~panicked
    /\ Len(items) < MaxItems
    /\ items' = Append(items, item)
    /\ call' = c
    /\ ret' = ItemRef(Len(items) + 1)
    /\ UNCHANGED <<imported, docs, license, imports, lic, panicked>>

\* The panic of a failed assertion (call c): the call returns nothing and
\* the program halts.
Panic(c) ==
    /\ ~panicked
    /\ panicked' = TRUE
    /\ call' = c
    /\ ret' = [kind |-> "panic"]
    /\ UNCHANGED <<imported, docs, license, imports, items, lic>>

\* Scope::push_module
PushModule(name) ==
    LET c == [op |-> "push_module", name |-> name]
    IN  IF ModuleNameFree(items, name)
        THEN Push(c, Decl_new("Module", name))
        ELSE Panic(c)

\* Scope::new_module (call c: new_module itself, or get_or_new_module).
new_module(c, name) ==
    IF ModuleNameFree(items, name)
    THEN New(c, Decl_new("Module", name))
    ELSE Panic(c)

NewModule(name) == new_module([op |-> "new_module", name |-> name], name)

\* Scope::get_module and Scope::get_module_mut: Some(reference) or None
\* (idx = 0).
GetModule(name) ==
    /\ ~panicked
    /\ call' = [op |-> "get_module", name |-> name]
    /\ ret' = [kind |-> "option", idx |-> get_module(items, name)]
    /\ UNCHANGED <<imported, docs, license, imports, items, lic, panicked>>

\* A faulty variant of GetOrNewModule: the lookup is skipped.
GetOrNewModuleNoLookup(name) ==
    new_module([op |-> "get_or_new_module", name |-> name], name)

\* Scope::get_or_new_module
GetOrNewModule(name) ==
    LET c == [op |-> "get_or_new_module", name |-> name]
    IN  IF get_module(items, name) # 0
        THEN /\ ~panicked
             /\ call' = c
             /\ ret' = ItemRef(get_module(items, name))
             /\ UNCHANGED <<imported, docs, license, imports, items, lic, panicked>>
        ELSE new_module(c, name)

\* Scope::new_const and Scope::push_const
NewConst(name, ty, value) == New([op |-> "new_const"], Const_new(name, ty, value))

PushConst(item) == Push([op |-> "push_const"], item)

\* Const::doc on the Const the last call returned.
ConstDoc(documentation) ==
    /\ ~panicked
    /\ ret.kind = "item"
    /\ items[ret.idx].kind = "Const"
    /\ items' = [items EXCEPT ![ret.idx] = Const_doc(@, documentation)]
    /\ call' = [op |-> "Const::doc"]
    /\ UNCHANGED <<imported, docs, license, imports, lic, ret, panicked>>

\* Const::vis on the Const the last call returned.
ConstVis(vis) ==
    /\ ~panicked
    /\ ret.kind = "item"
    /\ items[ret.idx].kind = "Const"
    /\ items' = [items EXCEPT ![ret.idx] = Const_vis(@, vis)]
    /\ call' = [op |-> "Const::vis"]
    /\ UNCHANGED <<imported, docs, license, imports, lic, ret, panicked>>

\* Scope::new_struct, new_fn, new_trait, new_enum, new_impl
NewStruct(name) == New([op |-> "new_struct"], Decl_new("Struct", name))

NewFn(name) == New([op |-> "new_fn"], Decl_new("Function", name))

NewTrait(name) == New([op |-> "new_trait"], Decl_new("Trait", name))

NewEnum(name) == New([op |-> "new_enum"], Decl_new("Enum", name))

NewImpl(target) == New([op |-> "new_impl"], Decl_new("Impl", target))

\* Scope::push_struct, push_fn, push_trait, push_enum, push_impl
PushStruct(item) == Push([op |-> "push_struct"], item)

PushFn(item) == Push([op |-> "push_fn"], item)

PushTrait(item) == Push([op |-> "push_trait"], item)

PushEnum(item) == Push([op |-> "push_enum"], item)

PushImpl(item) == Push([op |-> "push_impl"], item)

\* Scope::new_comment and Scope::push_comment
NewComment(comment) == New([op |-> "new_comment"], Comment_new(comment))

PushComment(comment) == Push([op |-> "push_comment"], comment)

\* Scope::raw
Raw(val) == Push([op |-> "raw"], [kind |-> "Raw", val |-> val])

\* What a render call hands back: the Result, and the sink as it is left.
\* failed: a write of the sink failed; later: a write was tried after the
\* first failed one.
RenderResult(f) ==
    [kind |-> "result", ok |-> f.ok, dst |-> f.dst,
     failed |-> (f.firstFail # 0), later |-> f.later]

\* Scope::fmt on a fresh Formatter whose sink fails as failAt and sticky say.
Fmt(failAt, sticky) ==
    /\ ~panicked
    /\ call' = [op |-> "fmt"]
    /\ ret' = RenderResult(Render(license, docs, imports, items,
                                  Formatter_new(failAt, sticky)))
    /\ UNCHANGED <<imported, docs, license, imports, items, lic, panicked>>

\* Display for Scope (to_string).
ToString ==
    /\ ~panicked
    /\ call' = [op |-> "to_string"]
    /\ ret' = [kind |-> "string", out |-> Display_fmt(license, docs, imports, items)]
    /\ UNCHANGED <<imported, docs, license, imports, items, lic, panicked>>

\* License::new: the caller starts a License.
LicenseNew(title, ty) ==
    /\ lic' = Some(License_new(title, ty))
    /\ call' = [op |-> "License::new"]
    /\ ret' = Self
    /\ UNCHANGED <<imported, docs, license, imports, items, panicked>>

\* License::add_copyright on the License the caller is building.
AddCopyright(c) ==
    /\ lic # None
    /\ Len(lic[1].copyrights) < MaxCopyrights
    /\ lic' = Some(add_copyright(lic[1], c))
    /\ call' = [op |-> "add_copyright"]
    /\ ret' = Self
    /\ UNCHANGED <<imported, docs, license, imports, items, panicked>>

\* License::fmt of that License on a fresh Formatter.
LicenseFmt(failAt, sticky) ==
    /\ lic # None
    /\ call' = [op |-> "License::fmt"]
    /\ ret' = RenderResult(TryWrites(Formatter_new(failAt, sticky),
                                     License_fmt(lic[1])))
    /\ UNCHANGED <<imported, docs, license, imports, items, lic, panicked>>

(***************************************************************************)
(* The inputs the calls are made with.                                     *)
(***************************************************************************)
ModuleNames == {"foo", "bar"}

Comments == {<<>>, <<"a", NL, "b">>}

Raws == {<<"r">>, <<"r", NL>>}

DocsInputs == {<<"d">>}

Copyrights == {"2020 Alice", "2021 Bob"}

LicenseInputs ==
    {add_copyright(License_new("T", "Mit"), "2020 Alice"), License_new("", "Bsd")}

Paths == {"std::io", "std::fmt"}

Tys == {<<"Read">>, <<"Write">>, <<"Display">>, <<"a", "B">>, <<"a", "C">>}

VisInputs == {"pub"}

\* The values an import's visibility takes: None and Some of the inputs.
Visibility == {None} \cup {Some(x) : x \in VisInputs}

Titles == {"", "T"}

LicenseTypes == {"Mit", "Bsd"}

Sticky == BOOLEAN

(***************************************************************************)
(* SpecBuild: the declarations of a Scope are built call by call.          *)
(***************************************************************************)
NextBuild ==
    \/ \E n \in ModuleNames : PushModule(n)
    \/ \E n \in ModuleNames : NewModule(n)
    \/ \E n \in ModuleNames : GetModule(n)
    \/ \E n \in ModuleNames : GetOrNewModule(n)
    \/ NewConst("C", "u8", "1")
    \/ PushConst(Const_new("C", "u8", "1"))
    \/ ConstDoc(<<"d">>)
    \/ ConstVis("pub")
    \/ NewStruct("Foo")
    \/ PushStruct(Decl_new("Struct", "Foo"))
    \/ NewFn("foo")
    \/ PushFn(Decl_new("Function", "foo"))
    \/ NewTrait("Foo")
    \/ PushTrait(Decl_new("Trait", "Foo"))
    \/ NewEnum("Foo")
    \/ PushEnum(Decl_new("Enum", "Foo"))
    \/ NewImpl("Foo")
    \/ PushImpl(Decl_new("Impl", "Foo"))
    \/ \E c \in Comments : NewComment(c)
    \/ \E c \in Comments : PushComment(Comment_new(c))
    \/ \E v \in Raws : Raw(v)

SpecBuild == Init /\ [][NextBuild]_vars

(***************************************************************************)
(* Spec: a Scope is given a license, documentation, an import and          *)
(* declarations, and is rendered: by Scope::fmt into a sink that may fail, *)
(* and by to_string.                                                       *)
(***************************************************************************)
Next ==
    \/ \E l \in LicenseInputs : License(l)
    \/ \E d \in DocsInputs : Docs(d)
    \/ Import("std::io", <<"Read">>, MaxImports)
    \/ PushModule("foo")
    \/ PushConst(Const_new("C", "u8", "1"))
    \/ PushStruct(Decl_new("Struct", "Foo"))
    \/ \E c \in Comments : PushComment(Comment_new(c))
    \/ \E v \in Raws : Raw(v)
    \/ \E k \in 0..MaxFailAt, st \in Sticky : Fmt(k, st)
    \/ ToString

Spec == Init /\ [][Next]_vars

(***************************************************************************)
(* SpecImports: the import table is filled, visibilities are set, and the  *)
(* Scope is rendered.                                                      *)
(***************************************************************************)
NextImports ==
    \/ \E p \in Paths, t \in Tys : Import(p, t, MaxImports)
    \/ \E v \in VisInputs : ImportVis(v)
    \/ ToString

SpecImports == Init /\ [][NextImports]_vars

(***************************************************************************)
(* SpecLicense: a License is built and rendered.                           *)
(***************************************************************************)
NextLicense ==
    \/ \E t \in Titles, ty \in LicenseTypes : LicenseNew(t, ty)
    \/ \E c \in Copyrights : AddCopyright(c)
    \/ \E k \in 0..MaxFailAt, st \in Sticky : LicenseFmt(k, st)

SpecLicense == Init /\ [][NextLicense]_vars

(***************************************************************************)
(* Operators the properties are stated with.                               *)
(***************************************************************************)
\* Whether the table holds an Import record under (path, key).
HasImport(imps, path, key) ==
    ContainsKey(imps, path) /\ ContainsKey(Get(imps, path), key)

RECURSIVE Sum(_)
Sum(ns) == IF ns = <<>> THEN 0 ELSE Head(ns) + Sum(Tail(ns))

\* How often a line (a sequence of tokens) names type `name` as imported
\* from `path`: the line holds path, then "::", then name among what follows.
LineOccurrences(line, path, name) ==
    Cardinality({i \in 1..Len(line) :
        /\ line[i] = name
        /\ \E j \in 2..(i - 1) : line[j] = "::" /\ line[j - 1] = path})

\* How often a rendered text names the pair (path, name).
Occurrences(text, path, name) ==
    Sum([i \in 1..Len(TokLines(text)) |->
            LineOccurrences(TokLines(text)[i], path, name)])

\* What the Scope renders to as a string, as the state stands.
Rendered == Display_fmt(license, docs, imports, items)

RECURSIVE JoinComma(_)
JoinComma(names) ==
    IF Len(names) = 1 THEN names[1]
    ELSE names[1] \o ", " \o JoinComma(Tail(names))

\* The use statement of a visibility, a path and its type names (one or more).
UseStatement(vis, path, names) ==
    (IF vis = None THEN "" ELSE vis[1] \o " ")
    \o "use " \o path \o "::"
    \o (IF Len(names) = 1 THEN names[1] ELSE "{" \o JoinComma(names) \o "};")
    \o (IF Len(names) = 1 THEN ";" ELSE "")

\* The type names stored under path number p whose import has visibility v,
\* in stored order.
NamesOf(imps, p, v) ==
    LET pos == {i \in 1..Len(imps[p].val) : imps[p].val[i].val.vis = v}
        nth(k) == CHOOSE i \in pos : Cardinality({j \in pos : j < i}) = k - 1
    IN  [k \in 1..Cardinality(pos) |-> imps[p].val[nth(k)].key]

(***************************************************************************)
(* C1.  import(path, ty) called again with arguments it was called with    *)
(* before leaves the import table as it is (no entry added, the record     *)
(* and a visibility set on it kept) and returns the record stored for      *)
(* them; the rendered output then names the pair exactly once.             *)
(***************************************************************************)
\* The step is a call import(path, ty) repeating an earlier call.
RepeatedImport ==
    /\ call'.op = "import"
    /\ <<call'.path, call'.ty>> \in imported

\* What the repeated call leaves and returns.
SameRecord ==
    /\ imports' = imports
    /\ NumImports(imports') = NumImports(imports)
    /\ ret'.kind = "import"
    /\ ret'.path = call'.path
    /\ HasImport(imports, ret'.path, ret'.key)
    /\ Get(Get(imports', ret'.path), ret'.key) = Get(Get(imports, ret'.path), ret'.key)

\* The last call was a repeated import(path, ty).
AfterRepeatedImport == call.op = "import" /\ call.repeated

\* C1 as claimed: the pair is counted with ty as the caller wrote it.
C1_ImportIdempotent_AsWritten ==
    /\ [][RepeatedImport => SameRecord]_vars
    /\ [](AfterRepeatedImport =>
            Occurrences(Rendered, call.path, TyString(call.ty)) = 1)

\* C1 as amended: the rendered output names the pair (path, first `::`
\* segment of ty) exactly once.
C1_ImportIdempotent ==
    /\ [][RepeatedImport => SameRecord /\ ret'.key = call'.ty[1]]_vars
    /\ [](AfterRepeatedImport =>
            Occurrences(Rendered, call.path, call.ty[1]) = 1)

\* import("std::io", "Read") was repeated after a visibility was set on its
\* record, and the visibility is still there.
C1_Witness ==
    /\ call = [op |-> "import", path |-> "std::io", ty |-> <<"Read">>,
               repeated |-> TRUE]
    /\ ret = ImportRef("std::io", "Read")
    /\ Get(Get(imports, "std::io"), "Read").vis = Some("pub")

(***************************************************************************)
(* C2.  The imports ("std::io", "Read"), ("std::io", "Write"),             *)
(* ("std::fmt", "Display"), none with a visibility, render as the two      *)
(* lines `use std::io::{Read, Write};` and `use std::fmt::Display;`.  In   *)
(* general, when all imports have one visibility, there is one statement   *)
(* per path, paths in stored order and the types of a path in stored       *)
(* order; and stored order is first-registration order: an import call     *)
(* appends a new path after the paths there are, and a new type after the  *)
(* types its path has.                                                     *)
(***************************************************************************)
ExampleImports ==
    << [key |-> "std::io",
        val |-> << [key |-> "Read",  val |-> Import_new("std::io", "Read")],
                   [key |-> "Write", val |-> Import_new("std::io", "Write")] >>],
       [key |-> "std::fmt",
        val |-> << [key |-> "Display", val |-> Import_new("std::fmt", "Display")] >>] >>

\* All imports of the table have visibility v.
OneVisibility(v) ==
    \A p \in 1..Len(imports) : \A i \in 1..Len(imports[p].val) :
        imports[p].val[i].val.vis = v

\* The keys of an IndexMap in stored order.
Keys(m) == [i \in 1..Len(m) |-> m[i].key]

\* An import step keeps the stored order and appends what is new.
AppendsInOrder ==
    call'.op = "import" =>
        LET p == call'.path
            k == call'.ty[1]
        IN  IF HasImport(imports, p, k) THEN imports' = imports
            ELSE IF ContainsKey(imports, p)
            THEN /\ Keys(imports') = Keys(imports)
                 /\ Keys(Get(imports', p)) = Append(Keys(Get(imports, p)), k)
                 /\ \A q \in 1..Len(imports) :
                        imports[q].key # p => imports'[q] = imports[q]
            ELSE /\ Keys(imports') = Append(Keys(imports), p)
                 /\ Keys(Get(imports', p)) = <<k>>
                 /\ SubSeq(imports', 1, Len(imports)) = imports

C2_GroupingOrder ==
    /\ [][AppendsInOrder]_vars
    /\ [](ret.kind = "string" /\ imports = ExampleImports =>
            Lines(ret.out) = <<"use std::io::{Read, Write};",
                               "use std::fmt::Display;">>)
    /\ [](ret.kind = "string" =>
            \A v \in Visibility :
                OneVisibility(v) =>
                    Lines(ret.out) =
                        [p \in 1..Len(imports) |->
                            UseStatement(v, imports[p].key, Keys(imports[p].val))])

\* The three imports of the example were registered and rendered.
C2_Witness ==
    /\ ret.kind = "string"
    /\ imports = ExampleImports
    /\ imported = {<<"std::io", <<"Read">>>>, <<"std::io", <<"Write">>>>,
                   <<"std::fmt", <<"Display">>>>}

(***************************************************************************)
(* C9.  The import block holds exactly one use statement per (visibility,  *)
(* path) combination with at least one import, and nothing else; the       *)
(* statements are ordered by visibility, in the order each is first met    *)
(* going through the table path by path and type by type, then by path in  *)
(* stored order; one type gives `use <path>::<type>;`, more give           *)
(* `use <path>::{<t1>, <t2>, ...};`, after the visibility when there is    *)
(* one.                                                                    *)
(***************************************************************************)
\* The position, in stored order, of the first import with visibility v.
FirstMet(v) ==
    LET recs == FlatImports(imports)
    IN  CHOOSE i \in 1..Len(recs) :
            recs[i].vis = v /\ \A j \in 1..(i - 1) : recs[j].vis # v

\* The (visibility, path number) combinations that have an import.
Combinations ==
    {c \in Visibility \X (1..Len(imports)) :
        \E i \in 1..Len(imports[c[2]].val) : imports[c[2]].val[i].val.vis = c[1]}

\* Combination c comes before combination d.
Before(c, d) ==
    \/ FirstMet(c[1]) < FirstMet(d[1])
    \/ c[1] = d[1] /\ c[2] < d[2]

\* The statements the claim describes, in its order.
ExpectedStatements ==
    LET nth(k) == CHOOSE c \in Combinations :
                     Cardinality({d \in Combinations : Before(d, c)}) = k - 1
    IN  [k \in 1..Cardinality(Combinations) |->
            UseStatement(nth(k)[1], imports[nth(k)[2]].key,
                         NamesOf(imports, nth(k)[2], nth(k)[1]))]

C9_OneStatementPerVisibilityAndPath ==
    ret.kind = "string" => Lines(ret.out) = ExpectedStatements

\* A rendered table with two visibilities, the qualified one met first, one
\* path holding imports of both, and a statement listing two types.
C9_Witness ==
    /\ ret.kind = "string"
    /\ \E p \in 1..Len(imports) :
           <<None, p>> \in Combinations /\ <<Some("pub"), p>> \in Combinations
    /\ FirstMet(Some("pub")) < FirstMet(None)
    /\ \E c \in Combinations : Len(NamesOf(imports, c[2], c[1])) = 2

(***************************************************************************)
(* C10.  import(path, ty) stores and looks up the record under the part    *)
(* of ty before its first `::` alone: the call returns the record of       *)
(* (path, first segment), the table holds exactly one entry for it, a      *)
(* call whose ty has the first segment of an earlier call's ty (same       *)
(* path) changes nothing, and the rendered output names the first segment  *)
(* once and no later segment of ty.                                        *)
(***************************************************************************)
\* The tokens of a text.
Tokens(text) == {text[i] : i \in 1..Len(text)}

\* The step is a call import(path, ty) after a call with the same path and
\* a ty of the same first segment.
SameFirstSegmentImport ==
    /\ call'.op = "import"
    /\ \E pt \in imported : pt[1] = call'.path /\ pt[2][1] = call'.ty[1]

C10_FirstSegmentKey ==
    /\ [][SameFirstSegmentImport =>
            /\ imports' = imports
            /\ ret' = ImportRef(call'.path, call'.ty[1])]_vars
    /\ [](call.op = "import" =>
            /\ ret = ImportRef(call.path, call.ty[1])
            /\ Cardinality({i \in 1..Len(Get(imports, call.path)) :
                    Get(imports, call.path)[i].key = call.ty[1]}) = 1
            /\ Get(Get(imports, call.path), call.ty[1]).ty = call.ty[1]
            /\ Occurrences(Rendered, call.path, call.ty[1]) = 1
            /\ \A i \in 2..Len(call.ty) : call.ty[i] \notin Tokens(Rendered))

\* import("std::io", "a::C") after import("std::io", "a::B"): one record.
C10_Witness ==
    /\ call.op = "import"
    /\ call.path = "std::io"
    /\ call.ty = <<"a", "C">>
    /\ <<"std::io", <<"a", "B">>>> \in imported
    /\ NumImports(imports) = 1

(***************************************************************************)
(* C3.  No two Module items of the Scope have the same name; push_module   *)
(* or new_module with the name of a Module the Scope holds panics and      *)
(* appends nothing.                                                        *)
(***************************************************************************)
\* The positions of the Module items named name.
ModulesNamed(its, name) ==
    {i \in 1..Len(its) : its[i].kind = "Module" /\ its[i].name = name}

NoDuplicateModules ==
    \A n \in ModuleNames : Cardinality(ModulesNamed(items, n)) <= 1

\* The step is push_module or new_module with a name that is taken.
DuplicateModulePush ==
    /\ call'.op \in {"push_module", "new_module"}
    /\ ModulesNamed(items, call'.name) # {}

C3_ModuleNamesUnique ==
    /\ []NoDuplicateModules
    /\ [][DuplicateModulePush => panicked' /\ items' = items]_vars

\* push_module or new_module has panicked on a name that was taken.
C3_Witness ==
    /\ panicked
    /\ call.op \in {"push_module", "new_module"}
    /\ ModulesNamed(items, call.name) # {}

(***************************************************************************)
(* C4.  get_or_new_module(name) never panics and never duplicates a        *)
(* module: with a Module of that name among the items it returns that one  *)
(* and leaves the items unchanged, otherwise it appends exactly one new    *)
(* Module of that name at the end and returns it.  A second call with the  *)
(* same name so returns the module of the first and changes nothing.       *)
(***************************************************************************)
GetOrNewStep ==
    call'.op = "get_or_new_module" =>
        LET found == ModulesNamed(items, call'.name)
        IN  /\ ~panicked'
            /\ ret'.kind = "item"
            /\ IF found # {}
               THEN /\ items' = items
                    /\ found = {ret'.idx}
               ELSE /\ items' = Append(items, [kind |-> "Module", name |-> call'.name])
                    /\ ret'.idx = Len(items) + 1

C4_GetOrNewModule ==
    /\ [][GetOrNewStep]_vars
    /\ [](call.op = "get_or_new_module" =>
            /\ ~panicked
            /\ ModulesNamed(items, call.name) = {ret.idx})

\* get_or_new_module returned a module that was there, not the last item.
C4_Witness ==
    /\ call.op = "get_or_new_module"
    /\ ret.kind = "item"
    /\ ret.idx < Len(items)

(***************************************************************************)
(* C5.  What Scope::fmt writes for N >= 1 declarations is what it writes   *)
(* for none (license, documentation, import block), then the               *)
(* declarations' own renders with exactly one line break between           *)
(* consecutive ones: N - 1 separators, none before the first declaration   *)
(* and none after the last.                                                *)
(***************************************************************************)
\* What a declaration renders to by itself.
ItemText(item) == Flatten(Item_fmt(item))

RECURSIVE JoinTexts(_, _)
\* The texts with sep between consecutive ones.
JoinTexts(texts, sep) ==
    IF Len(texts) = 1 THEN texts[1]
    ELSE texts[1] \o sep \o JoinTexts(Tail(texts), sep)

\* Scope::fmt ran on a sink that did not fail.
FmtDone == call.op = "fmt" /\ ~ret.failed

C5_SeparatorsBetweenItems ==
    FmtDone /\ Len(items) >= 1 =>
        ret.dst = Render(license, docs, imports, <<>>, Formatter_new(0, FALSE)).dst
                  \o JoinTexts([i \in 1..Len(items) |-> ItemText(items[i])], <<NL>>)

\* A rendered Scope with a license, an import and two declarations.
C5_Witness ==
    /\ FmtDone
    /\ Len(items) = 2
    /\ license # None
    /\ imports # <<>>

(***************************************************************************)
(* C6.  The string to_string produces never ends with a line break.        *)
(***************************************************************************)
C6_NoTrailingNewline ==
    ret.kind = "string" => ret.out = <<>> \/ ret.out[Len(ret.out)] # NL

(***************************************************************************)
(* C7.  When a write of the sink fails during Scope::fmt, the render       *)
(* stops there (no write is tried after the first failed one) and          *)
(* Scope::fmt returns the failure.                                         *)
(***************************************************************************)
C7_FailurePropagates ==
    call.op = "fmt" /\ ret.failed => ~ret.ok /\ ~ret.later

(***************************************************************************)
(* C8.  An MIT License with k >= 0 copyright entries renders the           *)
(* template with its single `{}` line replaced by the k lines              *)
(* `// Copyright (c) <entry>` in registration order (none when k = 0),     *)
(* every other template line once, in template order, as a line comment;   *)
(* add_copyright registers an entry after those registered before.         *)
(***************************************************************************)
TemplateLines == Lines(MIT_LICENSE_TEXT)

\* The positions of the placeholder line in the template.
Placeholders == {i \in 1..Len(TemplateLines) : TemplateLines[i] = "{}"}

\* The lines of the rendered license: title lines, body, SPDX lines.
ExpectedLicenseLines(l) ==
    LET ph == CHOOSE i \in Placeholders : TRUE
    IN  (IF l.title = "" THEN <<>> ELSE <<"// " \o l.title, "//">>)
        \o [i \in 1..(ph - 1) |-> "// " \o TemplateLines[i]]
        \o [i \in 1..Len(l.copyrights) |-> "// Copyright (c) " \o l.copyrights[i]]
        \o [i \in 1..(Len(TemplateLines) - ph) |-> "// " \o TemplateLines[ph + i]]
        \o <<"//", "// SPDX-License-Identifier: MIT", "//", "">>

C8_CopyrightSubstitution ==
    /\ [][call'.op = "add_copyright" =>
            \E c \in Copyrights : lic'[1].copyrights = Append(lic[1].copyrights, c)]_vars
    /\ [](call.op = "License::fmt" /\ ~ret.failed /\ lic[1].ty = "Mit" =>
            /\ Cardinality(Placeholders) = 1
            /\ Lines(ret.dst) = ExpectedLicenseLines(lic[1]))

\* The MIT license of "2020 Alice" and "2021 Bob" was rendered.
C8_Witness ==
    /\ call.op = "License::fmt"
    /\ ~ret.failed
    /\ lic # None
    /\ lic[1].ty = "Mit"
    /\ lic[1].copyrights = <<"2020 Alice", "2021 Bob">>

====
